---- MODULE Spec2Model ----
(***************************************************************************)
(* Model of the point-generation / render pipeline of complex_fourier.py:  *)
(* the producer thread ComplexFourierVisu._processing, the render tick     *)
(* ComplexFourierVisu._update_window and the mouse callback                *)
(* ComplexFourierVisu._cb_button_release_event, at the granularity of the  *)
(* source lines that touch shared state.  Labels "lNNN" are source lines   *)
(* of src/complex_fourier.py.                                              *)
(*                                                                         *)
(* Numbers.  theta and the frequencies are exact rationals <<num, den>>.   *)
(* A complex value is kept as the ordered formal sum the code accumulates, *)
(* one term rad * e^(2*pi*i*turns) per component; its real and imaginary   *)
(* parts are the formal sums of rad*cos(2*pi*turns) and rad*sin(2*pi*turns)*)
(* (floating-point rounding is not modelled).                              *)
(***************************************************************************)
EXTENDS Integers, Sequences, FiniteSets, TLC

\* ---------------------------------------------------------------- bounds
\* _n_steps_per_update, scaled down from the source's 1000
StepsPerUpdate == 2
\* number of batches after which the modelled producer is not scheduled again
MaxBatches == 2
\* number of curves main() registers at most
MaxCurves == 2
\* number of recognized gestures / completed redraws that are counted
MaxGestures == 2
MaxRedraws == 2

\* ------------------------------------------------------- program constants
n_full_rotation_parts == 1000

\* ------------------------------------------------------------- arithmetic
Abs(n) == IF n < 0 THEN -n ELSE n

RECURSIVE GCD(_, _)
GCD(a, b) == IF b = 0 THEN a ELSE GCD(b, a % b)

\* the rational n/d (d # 0) in lowest terms with a positive denominator
Rat(n, d) ==
    LET g == GCD(Abs(n), Abs(d))
        s == IF d < 0 THEN -1 ELSE 1
    IN  <<(s * n) \div g, (s * d) \div g>>

RatMul(p, q) == Rat(p[1] * q[1], p[2] * q[2])

RatLess(p, q) == p[1] * q[2] < q[1] * p[2]

Min(a, b) == IF a <= b THEN a ELSE b

\* Python's lst[:n] for n >= 0
Slice(lst, n) == SubSeq(lst, 1, Min(n, Len(lst)))

\* ------------------------------------------------------------ curve model
\* ComplexFourierComponent(rad, freq)
ComplexFourierComponent(rad, freq) == [rad |-> rad, freq |-> freq]

\* ComplexFourier.__init__: no components, three empty point lists
ComplexFourier(comps) ==
    [comps |-> comps, points |-> <<>>, points_x |-> <<>>, points_y |-> <<>>]

\* ComplexFourierSpirograph.__init__ for gear_rad # 0
ComplexFourierSpirograph(gear_rad, gear_point_rad) ==
    ComplexFourier(<<ComplexFourierComponent(1, Rat(1, 1)),
                     ComplexFourierComponent(-gear_rad, Rat(1, 1)),
                     ComplexFourierComponent(gear_point_rad, Rat(-1, gear_rad))>>)

\* theta = float(n_cur_rotation_parts) / n_full_rotation_parts
Theta(n) == Rat(n, n_full_rotation_parts)

\* comp.rad * e ** (const_term * theta * comp.freq)
Term(comp, theta) == [rad |-> comp.rad, turns |-> RatMul(theta, comp.freq)]

\* ComplexFourier.calc_z: z = 0, then z += term for each component in order
calc_z(comps, theta) == [i \in 1..Len(comps) |-> Term(comps[i], theta)]

\* z.real and z.imag
Real(z) == [i \in 1..Len(z) |-> [rad |-> z[i].rad, fn |-> "cos", turns |-> z[i].turns]]
Imag(z) == [i \in 1..Len(z) |-> [rad |-> z[i].rad, fn |-> "sin", turns |-> z[i].turns]]

\* what main() can register: the shape of its branch test == 0, or the
\* spirographs of its branch test == 1, each with a gear radius of its own and
\* gear_point_rad = gear_rad - (a constant); gear_rad = 0 is the input that
\* ComplexFourierSpirograph cannot divide by
GenericShape ==
    <<ComplexFourierComponent(2, Rat(1, 1)), ComplexFourierComponent(-1, Rat(2, 1))>>
GearRads(n_registered) == {0, n_registered + 2}
GearPointRads(gear_rad) == {gear_rad - 1}

\* ------------------------------------------------------------------ state
VARIABLES
    main_pc,      \* "setup" | "running" | "crashed": where main() is
    manual,       \* self._manual
    next,         \* self._next
    is_drawing,   \* self._is_drawing
    n_cur,        \* self._n_cur_rotation_parts
    fouriers,     \* self._fouriers, each with its comps and three point lists
    proc_pc,      \* line the producer thread is about to execute
    proc_i,       \* i of "for i in range(n_steps_per_update)"
    proc_f,       \* index in self._fouriers of the producer's "fourier"
    theta,        \* producer local theta
    z,            \* producer local z (also append_point's parameter)
    ui_pc,        \* line the UI thread is about to execute, "idle" in the event loop
    ui_f,         \* index in self._fouriers of the tick's "fourier"
    len_x,        \* len(fourier.points_x) as evaluated for min(), until min() is called
    min_len,      \* tick local min_len
    arg_x,        \* fourier.points_x[:min_len] as evaluated for plot()
    arg_y,        \* fourier.points_y[:min_len] as evaluated for plot()
    n_batches,    \* history: batches whose for loop (l184-l193) has finished
    n_gestures,   \* history: recognized gestures received
    n_coalesced,  \* history: recognized gestures received while _next was already set
    n_redraws,    \* history: redraws completed
    mins_seen,    \* history: the values min(len(points_x), len(points_y)) of the tick's
                  \* curve has had since the tick read len(points_x) at l229
    tick_steps    \* history: steps the tick in progress has taken

flags == <<manual, next, is_drawing>>
shared == <<n_cur, fouriers>>
proc_vars == <<proc_pc, proc_i, proc_f, theta, z, n_batches>>
ui_locals == <<ui_f, len_x, min_len, arg_x, arg_y>>
ui_vars == <<ui_pc, ui_f, len_x, min_len, arg_x, arg_y, tick_steps>>
hist == <<n_gestures, n_coalesced, n_redraws, mins_seen>>
vars == <<main_pc, manual, next, is_drawing, n_cur, fouriers,
          proc_pc, proc_i, proc_f, theta, z, n_batches,
          ui_pc, ui_f, len_x, min_len, arg_x, arg_y, tick_steps,
          n_gestures, n_coalesced, n_redraws, mins_seen>>

NoValue == <<>>

\* ComplexFourierVisu.__init__, for either value of manual_mode
Init ==
    /\ main_pc = "setup"
    /\ manual \in BOOLEAN
    /\ next = FALSE
    /\ is_drawing = FALSE
    /\ n_cur = 0
    /\ fouriers = <<>>
    /\ proc_pc = "idle" /\ proc_i = 0 /\ proc_f = 0
    /\ theta = NoValue /\ z = NoValue
    /\ ui_pc = "idle" /\ ui_f = 0 /\ len_x = 0 /\ min_len = 0
    /\ arg_x = NoValue /\ arg_y = NoValue
    /\ n_batches = 0 /\ n_gestures = 0 /\ n_coalesced = 0 /\ n_redraws = 0
    /\ tick_steps = 0 /\ mins_seen = {}

\* ------------------------------------------------------------------ setup
\* main(), test == 0: cf = ComplexFourier(...); sim.add_fourier(cf);
\* cf.add_fourier_component(...)
RegisterGeneric ==
    /\ main_pc = "setup"
    /\ Len(fouriers) < MaxCurves
    /\ fouriers = <<>>
    /\ fouriers' = Append(fouriers, ComplexFourier(GenericShape))
    /\ UNCHANGED <<main_pc, flags, n_cur, proc_vars, ui_vars, hist>>

\* the registration as it would be if the constructor did not fail for
\* gear_rad = 0 (the division deferred to calc_z)
RegisterSpirograph_NoCheck ==
    /\ main_pc = "setup"
    /\ Len(fouriers) < MaxCurves
    /\ \A f \in 1..Len(fouriers) : fouriers[f].comps # GenericShape
    /\ \E gear_rad \in GearRads(Len(fouriers)) :
         \E gear_point_rad \in GearPointRads(gear_rad) :
           fouriers' = Append(fouriers,
                              ComplexFourierSpirograph(gear_rad, gear_point_rad))
    /\ UNCHANGED <<main_pc, flags, n_cur, proc_vars, ui_vars, hist>>

\* main(), test == 1: cf = ComplexFourierSpirograph(gear_rad, gear_point_rad, ...);
\* sim.add_fourier(cf), once per spirograph.
\* -1. / gear_rad raises ZeroDivisionError for gear_rad = 0: main() ends there
RegisterSpirograph ==
    /\ main_pc = "setup"
    /\ Len(fouriers) < MaxCurves
    /\ \A f \in 1..Len(fouriers) : fouriers[f].comps # GenericShape
    /\ \E gear_rad \in GearRads(Len(fouriers)) :
         \E gear_point_rad \in GearPointRads(gear_rad) :
           IF gear_rad = 0
           THEN /\ main_pc' = "crashed"
                /\ UNCHANGED fouriers
           ELSE /\ fouriers' = Append(fouriers,
                                      ComplexFourierSpirograph(gear_rad, gear_point_rad))
                /\ UNCHANGED main_pc
    /\ UNCHANGED <<flags, n_cur, proc_vars, ui_vars, hist>>

\* ComplexFourierVisu.run: start the producer thread, connect the callback,
\* start the animation timer, enter the event loop
Run ==
    /\ main_pc = "setup"
    /\ main_pc' = "running"
    /\ proc_pc' = "l185"
    /\ UNCHANGED <<flags, shared, proc_i, proc_f, theta, z, n_batches, ui_vars, hist>>

\* mins_seen after a step that leaves the point lists as in fs: while the tick is
\* between its two len() calls of l229, the current minimum is recorded
MinsSeenAfter(fs) ==
    IF ui_pc = "l229y"
    THEN mins_seen \cup {Min(Len(fs[ui_f].points_x), Len(fs[ui_f].points_y))}
    ELSE mins_seen

\* --------------------------------------------------------------- producer
\* l185 as it would be with theta taken from the loop index i
Proc_l185_ThetaFromLoopIndex ==
    /\ proc_pc = "l185"
    /\ n_batches < MaxBatches
    /\ theta' = Theta(proc_i)
    /\ IF Len(fouriers) > 0
       THEN proc_f' = 1 /\ proc_pc' = "l188"
       ELSE proc_f' = 0 /\ proc_pc' = "l192"
    /\ UNCHANGED <<main_pc, flags, shared, proc_i, z, n_batches, ui_vars, hist>>

\* l185: theta = float(self._n_cur_rotation_parts) / self._n_full_rotation_parts
\* (entered from "for i in range(...)"; a new batch is not begun past MaxBatches)
Proc_l185 ==
    /\ proc_pc = "l185"
    /\ n_batches < MaxBatches
    /\ theta' = Theta(n_cur)
    /\ IF Len(fouriers) > 0
       THEN proc_f' = 1 /\ proc_pc' = "l188"
       ELSE proc_f' = 0 /\ proc_pc' = "l192"
    /\ UNCHANGED <<main_pc, flags, shared, proc_i, z, n_batches, ui_vars, hist>>

\* l188: z = fourier.calc_z(theta)
Proc_l188 ==
    /\ proc_pc = "l188"
    /\ z' = calc_z(fouriers[proc_f].comps, theta)
    /\ proc_pc' = "l136"
    /\ UNCHANGED <<main_pc, flags, shared, proc_i, proc_f, theta, n_batches, ui_vars, hist>>

\* l136 as it would be with the commented-out lock (l183, l208) held by a drawing tick
Proc_l136_WaitWhileDrawing ==
    /\ proc_pc = "l136"
    /\ ~is_drawing
    /\ fouriers' = [fouriers EXCEPT ![proc_f].points = Append(@, z)]
    /\ proc_pc' = "l137"
    /\ UNCHANGED <<main_pc, flags, n_cur, proc_i, proc_f, theta, z, n_batches, ui_vars, hist>>

\* l136: self._points.append(z)
Proc_l136 ==
    /\ proc_pc = "l136"
    /\ fouriers' = [fouriers EXCEPT ![proc_f].points = Append(@, z)]
    /\ proc_pc' = "l137"
    /\ UNCHANGED <<main_pc, flags, n_cur, proc_i, proc_f, theta, z, n_batches, ui_vars, hist>>

\* l137 as it would be with points_y written for points_x
Proc_l137_AppendsToY ==
    /\ proc_pc = "l137"
    /\ fouriers' = [fouriers EXCEPT ![proc_f].points_y = Append(@, Real(z))]
    /\ proc_pc' = "l138"
    /\ UNCHANGED <<main_pc, flags, n_cur, proc_i, proc_f, theta, z, n_batches, ui_vars,
                   n_gestures, n_coalesced, n_redraws>>
    /\ mins_seen' = MinsSeenAfter(fouriers')

\* l137: self._points_x.append(z.real)
Proc_l137 ==
    /\ proc_pc = "l137"
    /\ fouriers' = [fouriers EXCEPT ![proc_f].points_x = Append(@, Real(z))]
    /\ proc_pc' = "l138"
    /\ UNCHANGED <<main_pc, flags, n_cur, proc_i, proc_f, theta, z, n_batches, ui_vars,
                   n_gestures, n_coalesced, n_redraws>>
    /\ mins_seen' = MinsSeenAfter(fouriers')

\* l138 as it would be with z.real written for z.imag
Proc_l138_AppendsReal ==
    /\ proc_pc = "l138"
    /\ fouriers' = [fouriers EXCEPT ![proc_f].points_y = Append(@, Real(z))]
    /\ z' = NoValue
    /\ IF proc_f < Len(fouriers)
       THEN proc_f' = proc_f + 1 /\ proc_pc' = "l188"
       ELSE proc_f' = 0 /\ proc_pc' = "l192"
    /\ UNCHANGED <<main_pc, flags, n_cur, proc_i, theta, n_batches, ui_vars,
                   n_gestures, n_coalesced, n_redraws>>
    /\ mins_seen' = MinsSeenAfter(fouriers')

\* l138: self._points_y.append(z.imag), then the next fourier of l187 or l192
Proc_l138 ==
    /\ proc_pc = "l138"
    /\ fouriers' = [fouriers EXCEPT ![proc_f].points_y = Append(@, Imag(z))]
    /\ z' = NoValue
    /\ IF proc_f < Len(fouriers)
       THEN proc_f' = proc_f + 1 /\ proc_pc' = "l188"
       ELSE proc_f' = 0 /\ proc_pc' = "l192"
    /\ UNCHANGED <<main_pc, flags, n_cur, proc_i, theta, n_batches, ui_vars,
                   n_gestures, n_coalesced, n_redraws>>
    /\ mins_seen' = MinsSeenAfter(fouriers')

\* l192 as it would be with the increment after the for loop of l184
Proc_l192_OncePerBatch ==
    /\ proc_pc = "l192"
    /\ n_cur' = IF proc_i + 1 < StepsPerUpdate THEN n_cur ELSE n_cur + 1
    /\ theta' = NoValue
    /\ IF proc_i + 1 < StepsPerUpdate
       THEN proc_i' = proc_i + 1 /\ proc_pc' = "l185" /\ UNCHANGED n_batches
       ELSE proc_i' = 0 /\ proc_pc' = "l196" /\ n_batches' = n_batches + 1
    /\ UNCHANGED <<main_pc, flags, fouriers, proc_f, z, ui_vars, hist>>

\* l192: self._n_cur_rotation_parts += 1, then the next i of l184 or l196
Proc_l192 ==
    /\ proc_pc = "l192"
    /\ n_cur' = n_cur + 1
    /\ theta' = NoValue
    /\ IF proc_i + 1 < StepsPerUpdate
       THEN proc_i' = proc_i + 1 /\ proc_pc' = "l185" /\ UNCHANGED n_batches
       ELSE proc_i' = 0 /\ proc_pc' = "l196" /\ n_batches' = n_batches + 1
    /\ UNCHANGED <<main_pc, flags, fouriers, proc_f, z, ui_vars, hist>>

\* l196 as it would be if the loop ended after one batch instead of "while True"
Proc_l196_SingleBatch ==
    /\ proc_pc = "l196"
    /\ proc_pc' = "done"
    /\ UNCHANGED <<main_pc, flags, shared, proc_i, proc_f, theta, z, n_batches, ui_vars, hist>>

\* l196: time.sleep(self._update_interval / 1000.), then "while True" again
Proc_l196 ==
    /\ proc_pc = "l196"
    /\ proc_pc' = "l185"
    /\ UNCHANGED <<main_pc, flags, shared, proc_i, proc_f, theta, z, n_batches, ui_vars, hist>>

Processing ==
    \/ Proc_l185 \/ Proc_l188 \/ Proc_l136 \/ Proc_l137 \/ Proc_l138
    \/ Proc_l192 \/ Proc_l196

\* ------------------------------------------------------- render tick (UI)
\* the animation timer of run() (l264) calls _update_window; the event loop runs
\* one callback at a time, so a tick starts only when the UI thread is idle
UpdateWindow_Call ==
    /\ main_pc = "running"
    /\ ui_pc = "idle"
    /\ n_redraws < MaxRedraws
    /\ ui_pc' = "l209"
    /\ tick_steps' = 0
    /\ UNCHANGED <<main_pc, flags, shared, proc_vars, ui_locals, hist>>

\* l209 as it would be without the early return
UW_l209_NoDrop ==
    /\ ui_pc = "l209"
    /\ ui_pc' = "l213"
    /\ tick_steps' = tick_steps + 1
    /\ UNCHANGED <<main_pc, flags, shared, proc_vars, ui_locals, hist>>

\* l209: if self._is_drawing: return
UW_l209 ==
    /\ ui_pc = "l209"
    /\ ui_pc' = IF is_drawing THEN "idle" ELSE "l213"
    /\ tick_steps' = tick_steps + 1
    /\ UNCHANGED <<main_pc, flags, shared, proc_vars, ui_locals, hist>>

\* l213 as it would be with the clearing of _next moved out of "if self._manual"
UW_l213_ClearAlways ==
    /\ ui_pc = "l213"
    /\ ui_pc' = IF manual THEN "l214" ELSE "l221"
    /\ next' = FALSE
    /\ tick_steps' = tick_steps + 1
    /\ UNCHANGED <<main_pc, manual, is_drawing, shared, proc_vars, ui_locals, hist>>

\* l213 as it would be with the request gate applied in both modes
UW_l213_AlwaysGated ==
    /\ ui_pc = "l213"
    /\ ui_pc' = "l214"
    /\ tick_steps' = tick_steps + 1
    /\ UNCHANGED <<main_pc, flags, shared, proc_vars, ui_locals, hist>>

\* l213: if self._manual:
UW_l213 ==
    /\ ui_pc = "l213"
    /\ ui_pc' = IF manual THEN "l214" ELSE "l221"
    /\ tick_steps' = tick_steps + 1
    /\ UNCHANGED <<main_pc, flags, shared, proc_vars, ui_locals, hist>>

\* l214 as it would be without the early return
UW_l214_NoReturn ==
    /\ ui_pc = "l214"
    /\ ui_pc' = "l217"
    /\ tick_steps' = tick_steps + 1
    /\ UNCHANGED <<main_pc, flags, shared, proc_vars, ui_locals, hist>>

\* l214 as it would be with the test inverted: if self._next: return
UW_l214_Inverted ==
    /\ ui_pc = "l214"
    /\ ui_pc' = IF next THEN "idle" ELSE "l217"
    /\ tick_steps' = tick_steps + 1
    /\ UNCHANGED <<main_pc, flags, shared, proc_vars, ui_locals, hist>>

\* l214: if not self._next: return
UW_l214 ==
    /\ ui_pc = "l214"
    /\ ui_pc' = IF ~next THEN "idle" ELSE "l217"
    /\ tick_steps' = tick_steps + 1
    /\ UNCHANGED <<main_pc, flags, shared, proc_vars, ui_locals, hist>>

\* l217 as it would be if the request were not consumed
UW_l217_NoClear ==
    /\ ui_pc = "l217"
    /\ ui_pc' = "l221"
    /\ tick_steps' = tick_steps + 1
    /\ UNCHANGED <<main_pc, flags, shared, proc_vars, ui_locals, hist>>

\* l217: self._next = False
UW_l217 ==
    /\ ui_pc = "l217"
    /\ next' = FALSE
    /\ ui_pc' = "l221"
    /\ tick_steps' = tick_steps + 1
    /\ UNCHANGED <<main_pc, manual, is_drawing, shared, proc_vars, ui_locals, hist>>

\* l221: self._is_drawing = True
UW_l221 ==
    /\ ui_pc = "l221"
    /\ is_drawing' = TRUE
    /\ ui_pc' = "l222"
    /\ tick_steps' = tick_steps + 1
    /\ UNCHANGED <<main_pc, manual, next, shared, proc_vars, ui_locals, hist>>

\* l222: self._ax.clear(), then the first fourier of l228 or l232
UW_l222 ==
    /\ ui_pc = "l222"
    /\ IF Len(fouriers) > 0
       THEN ui_f' = 1 /\ ui_pc' = "l229x"
       ELSE ui_f' = 0 /\ ui_pc' = "l232"
    /\ tick_steps' = tick_steps + 1
    /\ UNCHANGED <<main_pc, flags, shared, proc_vars, len_x, min_len, arg_x, arg_y, hist>>

\* l229 as it would be with the commented-out lock taken around append_point
UW_l229x_WaitForAppend ==
    /\ ui_pc = "l229x"
    /\ proc_pc \notin {"l137", "l138"}
    /\ len_x' = Len(fouriers[ui_f].points_x)
    /\ ui_pc' = "l229y"
    /\ tick_steps' = tick_steps + 1
    /\ UNCHANGED <<main_pc, flags, shared, proc_vars, ui_f, min_len, arg_x, arg_y,
                   n_gestures, n_coalesced, n_redraws>>
    /\ mins_seen' = {Min(Len(fouriers[ui_f].points_x), Len(fouriers[ui_f].points_y))}

\* l229, first argument of min(): len(fourier.points_x)
UW_l229x ==
    /\ ui_pc = "l229x"
    /\ len_x' = Len(fouriers[ui_f].points_x)
    /\ ui_pc' = "l229y"
    /\ tick_steps' = tick_steps + 1
    /\ UNCHANGED <<main_pc, flags, shared, proc_vars, ui_f, min_len, arg_x, arg_y,
                   n_gestures, n_coalesced, n_redraws>>
    /\ mins_seen' = {Min(Len(fouriers[ui_f].points_x), Len(fouriers[ui_f].points_y))}

\* l229 as it would be without the clamp: min_len = len(fourier.points_x)
UW_l229y_NoClamp ==
    /\ ui_pc = "l229y"
    /\ min_len' = len_x
    /\ len_x' = 0
    /\ ui_pc' = "l230x"
    /\ tick_steps' = tick_steps + 1
    /\ UNCHANGED <<main_pc, flags, shared, proc_vars, ui_f, arg_x, arg_y,
                   n_gestures, n_coalesced, n_redraws>>
    /\ mins_seen' = {}

\* l229 as it would be with max() in place of min()
UW_l229y_Max ==
    /\ ui_pc = "l229y"
    /\ min_len' = (IF len_x >= Len(fouriers[ui_f].points_y)
                   THEN len_x ELSE Len(fouriers[ui_f].points_y))
    /\ len_x' = 0
    /\ ui_pc' = "l230x"
    /\ tick_steps' = tick_steps + 1
    /\ UNCHANGED <<main_pc, flags, shared, proc_vars, ui_f, arg_x, arg_y,
                   n_gestures, n_coalesced, n_redraws>>
    /\ mins_seen' = {}

\* l229, second argument and the call: min_len = min(..., len(fourier.points_y))
UW_l229y ==
    /\ ui_pc = "l229y"
    /\ min_len' = Min(len_x, Len(fouriers[ui_f].points_y))
    /\ len_x' = 0
    /\ ui_pc' = "l230x"
    /\ tick_steps' = tick_steps + 1
    /\ UNCHANGED <<main_pc, flags, shared, proc_vars, ui_f, arg_x, arg_y,
                   n_gestures, n_coalesced, n_redraws>>
    /\ mins_seen' = {}

\* l230, first argument of plot(): fourier.points_x[:min_len]
UW_l230x ==
    /\ ui_pc = "l230x"
    /\ arg_x' = Slice(fouriers[ui_f].points_x, min_len)
    /\ ui_pc' = "l230y"
    /\ tick_steps' = tick_steps + 1
    /\ UNCHANGED <<main_pc, flags, shared, proc_vars, ui_f, len_x, min_len, arg_y, hist>>

\* l230 as it would be with the last min_len entries of points_y taken
UW_l230y_LastEntries ==
    /\ ui_pc = "l230y"
    /\ arg_y' = SubSeq(fouriers[ui_f].points_y,
                     Len(fouriers[ui_f].points_y) - Min(min_len, Len(fouriers[ui_f].points_y)) + 1,
                     Len(fouriers[ui_f].points_y))
    /\ ui_pc' = "l230p"
    /\ tick_steps' = tick_steps + 1
    /\ UNCHANGED <<main_pc, flags, shared, proc_vars, ui_f, len_x, min_len, arg_x, hist>>

\* l230, second argument of plot(): fourier.points_y[:min_len]
UW_l230y ==
    /\ ui_pc = "l230y"
    /\ arg_y' = Slice(fouriers[ui_f].points_y, min_len)
    /\ ui_pc' = "l230p"
    /\ tick_steps' = tick_steps + 1
    /\ UNCHANGED <<main_pc, flags, shared, proc_vars, ui_f, len_x, min_len, arg_x, hist>>

\* l230, the call self._ax.plot(x, y, ...): matplotlib raises ValueError for x and
\* y of different length, which ends the tick with _is_drawing left set;
\* otherwise the next fourier of l228 or l232
UW_l230p ==
    /\ ui_pc = "l230p"
    /\ IF Len(arg_x) # Len(arg_y)
       THEN ui_f' = 0 /\ ui_pc' = "idle"
       ELSE IF ui_f < Len(fouriers)
            THEN ui_f' = ui_f + 1 /\ ui_pc' = "l229x"
            ELSE ui_f' = 0 /\ ui_pc' = "l232"
    /\ min_len' = 0 /\ arg_x' = NoValue /\ arg_y' = NoValue
    /\ tick_steps' = tick_steps + 1
    /\ UNCHANGED <<main_pc, flags, shared, proc_vars, len_x, hist>>

\* l232 as it would be if _is_drawing were not reset
UW_l232_NoReset ==
    /\ ui_pc = "l232"
    /\ UNCHANGED is_drawing
    /\ ui_pc' = "idle"
    /\ n_redraws' = n_redraws + 1
    /\ tick_steps' = tick_steps + 1
    /\ UNCHANGED <<main_pc, manual, next, shared, proc_vars, ui_locals,
                   n_gestures, n_coalesced, mins_seen>>

\* l232: self._is_drawing = False, and the tick returns
UW_l232 ==
    /\ ui_pc = "l232"
    /\ is_drawing' = FALSE
    /\ ui_pc' = "idle"
    /\ n_redraws' = n_redraws + 1
    /\ tick_steps' = tick_steps + 1
    /\ UNCHANGED <<main_pc, manual, next, shared, proc_vars, ui_locals,
                   n_gestures, n_coalesced, mins_seen>>

\* the steps of a tick after its call
UpdateWindowStep ==
    \/ UW_l209 \/ UW_l213 \/ UW_l214 \/ UW_l217 \/ UW_l221 \/ UW_l222
    \/ UW_l229x \/ UW_l229y \/ UW_l230x \/ UW_l230y \/ UW_l230p \/ UW_l232

UpdateWindow == UpdateWindow_Call \/ UpdateWindowStep

\* ------------------------------------------------------------- input gate
Buttons == {1, 3}
Keys == {"control", "shift"}

\* the callback as it would be if it ran on a thread of its own, a tick in progress or not
CbButtonReleaseEvent_AnyTime ==
    /\ main_pc = "running"
    /\ \E button \in Buttons, key \in Keys :
         IF button = 1 /\ key = "control"
         THEN /\ n_gestures < MaxGestures
              /\ next' = TRUE
              /\ n_gestures' = n_gestures + 1
              /\ n_coalesced' = IF next THEN n_coalesced + 1 ELSE n_coalesced
         ELSE UNCHANGED <<next, n_gestures, n_coalesced>>
    /\ UNCHANGED <<main_pc, manual, is_drawing, shared, proc_vars, ui_vars, n_redraws,
                   mins_seen>>

\* l244-l245 as they would be with the test of event.key missing
Cb_l244_AnyModifier(button, key) ==
    /\ IF button = 1
       THEN /\ n_gestures < MaxGestures
            /\ next' = TRUE
            /\ n_gestures' = n_gestures + 1
            /\ n_coalesced' = IF next THEN n_coalesced + 1 ELSE n_coalesced
       ELSE UNCHANGED <<next, n_gestures, n_coalesced>>
    /\ UNCHANGED <<main_pc, manual, is_drawing, shared, proc_vars, ui_vars, n_redraws,
                   mins_seen>>

\* l244-l245 for one event: if event.button == 1 and event.key == "control":
\* self._next = True
Cb_l244(button, key) ==
    /\ IF button = 1 /\ key = "control"
       THEN /\ n_gestures < MaxGestures
            /\ next' = TRUE
            /\ n_gestures' = n_gestures + 1
            /\ n_coalesced' = IF next THEN n_coalesced + 1 ELSE n_coalesced
       ELSE UNCHANGED <<next, n_gestures, n_coalesced>>
    /\ UNCHANGED <<main_pc, manual, is_drawing, shared, proc_vars, ui_vars, n_redraws,
                   mins_seen>>

\* _cb_button_release_event(event), run by the event loop when the UI thread is idle
CbButtonReleaseEvent ==
    /\ main_pc = "running"
    /\ ui_pc = "idle"
    /\ \E button \in Buttons, key \in Keys : Cb_l244(button, key)

\* ---------------------------------------------------------- specification
Next ==
    \/ RegisterGeneric
    \/ RegisterSpirograph
    \/ Run
    \/ Proc_l185 \/ Proc_l188 \/ Proc_l136 \/ Proc_l137 \/ Proc_l138
    \/ Proc_l192 \/ Proc_l196
    \/ UpdateWindow_Call
    \/ UW_l209 \/ UW_l213 \/ UW_l214 \/ UW_l217 \/ UW_l221 \/ UW_l222
    \/ UW_l229x \/ UW_l229y \/ UW_l230x \/ UW_l230y \/ UW_l230p \/ UW_l232
    \/ CbButtonReleaseEvent

Spec == Init /\ [][Next]_vars

\* the same program with _is_drawing held set from outside (a caller or a test
\* harness writes the field before the ticks), or not
InitHeld ==
    /\ main_pc = "setup"
    /\ manual \in BOOLEAN
    /\ next = FALSE
    /\ is_drawing \in BOOLEAN
    /\ n_cur = 0
    /\ fouriers = <<>>
    /\ proc_pc = "idle" /\ proc_i = 0 /\ proc_f = 0
    /\ theta = NoValue /\ z = NoValue
    /\ ui_pc = "idle" /\ ui_f = 0 /\ len_x = 0 /\ min_len = 0
    /\ arg_x = NoValue /\ arg_y = NoValue
    /\ n_batches = 0 /\ n_gestures = 0 /\ n_coalesced = 0 /\ n_redraws = 0
    /\ tick_steps = 0 /\ mins_seen = {}

SpecHeld == InitHeld /\ [][Next]_vars

\* the producer is a thread of its own: the interpreter keeps scheduling it
FairSpec == Spec /\ WF_vars(Processing)

\* ------------------------------------------------------------------ claims
\* the tick has cleared the display and not yet reset _is_drawing
Redrawing ==
    ui_pc \in {"l221", "l222", "l229x", "l229y", "l230x", "l230y", "l230p", "l232"}

\* the producer is between two batches
BetweenBatches == proc_pc = "l196" \/ (proc_pc = "l185" /\ proc_i = 0)

\* the theta a stored point was evaluated at (the first component of every
\* registered curve has frequency 1, so its turns are theta itself)
ThetaOf(point) == point[1].turns

\* C1: under every interleaving of append_point with a tick, the x and y
\* sequences handed to plot have equal length, and the clamped length used for the
\* slices and the plotted length never exceed the current length of points_x or
\* of points_y.
C1_PlotArgsSameLength ==
    /\ ui_pc \in {"l230x", "l230y", "l230p"} =>
         /\ min_len <= Len(fouriers[ui_f].points_x)
         /\ min_len <= Len(fouriers[ui_f].points_y)
    /\ ui_pc = "l230p" =>
         /\ Len(arg_x) = Len(arg_y)
         /\ Len(arg_x) <= Len(fouriers[ui_f].points_x)
         /\ Len(arg_x) <= Len(fouriers[ui_f].points_y)

\* C1 witness: plot is about to be called with a non-empty snapshot of a curve
\* whose x and y lists differ in length because the producer is inside append_point
C1_Witness ==
    /\ ui_pc = "l230p"
    /\ Len(arg_x) > 0
    /\ proc_f = ui_f
    /\ proc_pc = "l138"
    /\ Len(fouriers[ui_f].points_x) # Len(fouriers[ui_f].points_y)

\* C2: after N completed batches every registered curve's trace holds exactly
\* N * steps_per_batch points, the k-th being the curve's model evaluated at
\* theta = k / full_rotation_denominator; the counter is N * steps_per_batch (never
\* reset), and theta strictly increases along the trace.
C2_TraceAfterBatches ==
    BetweenBatches =>
      /\ n_cur = n_batches * StepsPerUpdate
      /\ \A f \in 1..Len(fouriers) :
           /\ Len(fouriers[f].points) = n_batches * StepsPerUpdate
           /\ \A k \in 0..(Len(fouriers[f].points) - 1) :
                /\ fouriers[f].points[k + 1] = calc_z(fouriers[f].comps, Theta(k))
                /\ ThetaOf(fouriers[f].points[k + 1]) = Rat(k, n_full_rotation_parts)
                /\ k > 0 => RatLess(ThetaOf(fouriers[f].points[k]),
                                    ThetaOf(fouriers[f].points[k + 1]))

\* C2 witness: two batches completed with two curves registered
C2_Witness ==
    /\ BetweenBatches
    /\ n_batches >= 2
    /\ Len(fouriers) >= 2

\* C3 as claimed: in manual mode, once no request is pending and no tick is in
\* progress, every recognized gesture has yielded one redraw.
C3_OneRedrawPerGesture ==
    (manual /\ ui_pc = "idle" /\ ~next) => n_redraws = n_gestures

\* C3 as amended: in manual mode every recognized gesture is accounted for as a
\* completed redraw, the redraw in progress, the pending request, or a gesture
\* that arrived while a request was already pending and was merged with it.
C3_GesturesAccounted ==
    manual =>
      n_gestures = n_redraws + (IF Redrawing THEN 1 ELSE 0)
                   + (IF next THEN 1 ELSE 0) + n_coalesced

\* C3 witness: manual mode, a redraw done and a gesture merged into a pending one
C3_Witness == manual /\ n_redraws >= 1 /\ n_coalesced >= 1

\* C4: in manual mode with the advance-request flag false, every step of a tick
\* changes nothing but the tick's own position, and the tick returns from l214
\* without a redraw.
C4_ManualNoRequestNoEffect ==
    [][(manual /\ ~next /\ ui_pc \in {"idle", "l209", "l213", "l214"} /\ UpdateWindow)
         => /\ UNCHANGED <<main_pc, flags, shared, proc_vars, ui_locals, hist>>
            /\ ui_pc' \in {"l209", "l213", "l214", "idle"}]_vars

\* C4 witness: manual mode, a tick has returned after its three tests (l209, l213,
\* l214) with no request, after an earlier tick had redrawn
C4_Witness ==
    /\ manual /\ ~next /\ ~is_drawing
    /\ ui_pc = "idle" /\ tick_steps = 3
    /\ n_redraws >= 1

\* C5: in manual mode the advance-request flag is false in the state in which a
\* redraw has just completed (the step l232).
C5_RequestClearAfterRedraw ==
    [][(manual /\ UW_l232) => ~next']_vars

\* C5 witness: manual mode, the last step of a redraw is about to run after two gestures
C5_Witness == manual /\ ui_pc = "l232" /\ n_gestures >= 2

\* C6: a tick invoked while the currently-rendering flag is set returns from l209
\* and changes nothing but its own position: no flag (the advance request
\* included), no shared state, no redraw; in either mode.
C6_BusyTickDropped ==
    [][(is_drawing /\ ui_pc \in {"idle", "l209"} /\ UpdateWindow)
         => /\ UNCHANGED <<main_pc, flags, shared, proc_vars, ui_locals, hist>>
            /\ ui_pc' \in {"l209", "idle"}]_vars

\* C6 witness: the flag is set, a request is pending, and a tick has returned
\* after the single test of l209
C6_Witness ==
    /\ is_drawing /\ next
    /\ ui_pc = "idle" /\ tick_steps = 1
    /\ n_redraws = 0

\* C7 as claimed: no step of the render tick or of the producer changes the
\* advance-request flag.
C7_OnlyInputGateWritesNext ==
    [][(UpdateWindow \/ Processing) => next' = next]_vars

\* C7 as amended: only the input callback sets the flag; the producer never
\* writes it; the render tick writes it only at l217, in manual mode, from true
\* to false.
C7_OnlyInputGateSetsNext ==
    [][/\ (~next /\ next') => CbButtonReleaseEvent
       /\ Processing => next' = next
       /\ (UpdateWindow /\ next' # next) => (manual /\ ui_pc = "l217" /\ ~next')]_vars

\* C7 witness: manual mode, the tick has just consumed a request at l217
C7_Witness == manual /\ ui_pc = "l221" /\ ~next /\ n_gestures >= 1

\* C8: a step of the render tick or of the input callback leaves the rotation
\* counter and every curve's point lists unchanged, and the producer's next step
\* is enabled whatever the mode, the advance request and the rendering flag are.
C8_ProducerOwnsTraces ==
    /\ [][(UpdateWindow \/ CbButtonReleaseEvent) => UNCHANGED <<n_cur, fouriers>>]_vars
    /\ []((main_pc = "running" /\ ~(proc_pc = "l185" /\ n_batches >= MaxBatches))
            => ENABLED Processing)

\* C8 witness: the producer is inside append_point while a tick is drawing and a
\* request is pending
C8_Witness ==
    /\ is_drawing /\ next
    /\ proc_pc = "l136"
    /\ n_cur > 0

\* C9: once started, under fair scheduling of the producer every registered
\* curve's trace reaches any length up to the modelled horizon, from any state.
C9_TracesKeepGrowing ==
    (main_pc = "running") ~>
        (\A f \in 1..Len(fouriers) :
            Len(fouriers[f].points_y) >= MaxBatches * StepsPerUpdate)

\* C9 witness: all traces have reached the horizon while a tick is stopped in
\* the middle of a redraw
C9_Witness ==
    /\ Len(fouriers) >= 2
    /\ \A f \in 1..Len(fouriers) :
         Len(fouriers[f].points_y) >= MaxBatches * StepsPerUpdate
    /\ is_drawing /\ manual /\ ui_pc = "l229x"

\* C10: a started tick always has an enabled step, whatever the producer is
\* doing, and takes at most 7 + 5 * (number of registered curves) steps.
C10_TickNeverWaits ==
    /\ ui_pc # "idle" => ENABLED UpdateWindowStep
    /\ tick_steps <= 7 + 5 * Len(fouriers)

\* C10 witness: a tick reads a curve's lengths while the producer is between the
\* appends of the same curve
C10_Witness ==
    /\ ui_pc = "l229x"
    /\ proc_pc \in {"l137", "l138"}
    /\ proc_f = ui_f
    /\ ui_f = 2

\* C11: a spirograph with gear radius 0 fails at construction: no registered
\* spirograph has gear radius 0 (its second component is (-gear_rad, 1)), and
\* after the failure main() has ended with the producer never started, so no
\* sample of any curve was ever computed.
C11_ZeroGearRejected ==
    /\ \A f \in 1..Len(fouriers) :
         fouriers[f].comps # GenericShape => fouriers[f].comps[2].rad # 0
    /\ main_pc = "crashed" =>
         /\ proc_pc = "idle" /\ ui_pc = "idle" /\ n_cur = 0
         /\ \A f \in 1..Len(fouriers) : fouriers[f].points = <<>>

\* C11 witness: main() has failed on a gear radius 0 after registering a curve
C11_Witness == main_pc = "crashed" /\ Len(fouriers) >= 1

\* C12: the callback sets the advance request for button 1 with control held
\* and changes nothing else; for any other event it changes nothing at all.
C12_OnlyCtrlLeftClick ==
    [][\A button \in Buttons, key \in Keys :
         (main_pc = "running" /\ ui_pc = "idle" /\ Cb_l244(button, key)) =>
           /\ UNCHANGED <<main_pc, manual, is_drawing, shared, proc_vars, ui_vars,
                          n_redraws>>
           /\ IF button = 1 /\ key = "control"
              THEN next'
              ELSE UNCHANGED <<next, n_gestures, n_coalesced>>]_vars

\* C12 witness: in continuous mode a recognized gesture has set the request
\* between two redraws
C12_Witness ==
    /\ ~manual /\ next /\ ui_pc = "idle"
    /\ n_gestures = 1 /\ n_redraws = 1

\* C13: the clamped length a tick computes for a curve is the value that
\* min(len(points_x), len(points_y)) of that curve had at some instant between
\* the tick's read of len(points_x) and its read of len(points_y), both included.
C13_ClampIsAMinimumSeen ==
    [][UW_l229y => min_len' \in mins_seen]_vars

\* C13 witness: between the two reads the producer has appended a whole sample,
\* and points_y is now longer than the length read for points_x
C13_Witness ==
    /\ ui_pc = "l229y"
    /\ Cardinality(mins_seen) >= 3
    /\ len_x < Len(fouriers[ui_f].points_y)
    /\ \E m \in mins_seen : m < len_x

\* an append_point call on curve f has appended to points and not yet to points_y
Appending(f) == proc_f = f /\ proc_pc \in {"l137", "l138"}

\* s is t or t with entries appended
IsPrefix(s, t) == Len(s) <= Len(t) /\ SubSeq(t, 1, Len(s)) = s

\* C14: whenever no append_point call is in progress on a curve its three
\* lists have the same length and points_x[i], points_y[i] are the real and
\* imaginary part of points[i]; every step extends each list by at most one
\* entry and keeps all earlier entries, and a completed append_point has
\* extended each list by exactly one.
C14_ListsInLockstep ==
    /\ [](\A f \in 1..Len(fouriers) :
            ~Appending(f) =>
              /\ Len(fouriers[f].points_x) = Len(fouriers[f].points)
              /\ Len(fouriers[f].points_y) = Len(fouriers[f].points)
              /\ \A i \in 1..Len(fouriers[f].points) :
                   /\ fouriers[f].points_x[i] = Real(fouriers[f].points[i])
                   /\ fouriers[f].points_y[i] = Imag(fouriers[f].points[i]))
    /\ [][\A f \in 1..Len(fouriers) :
            /\ IsPrefix(fouriers[f].points, fouriers'[f].points)
            /\ IsPrefix(fouriers[f].points_x, fouriers'[f].points_x)
            /\ IsPrefix(fouriers[f].points_y, fouriers'[f].points_y)
            /\ Len(fouriers'[f].points) <= Len(fouriers[f].points) + 1
            /\ Len(fouriers'[f].points_x) <= Len(fouriers[f].points_x) + 1
            /\ Len(fouriers'[f].points_y) <= Len(fouriers[f].points_y) + 1
            /\ Proc_l138 /\ proc_f = f =>
                 /\ fouriers'[f].points = Append(SubSeq(fouriers[f].points, 1,
                                            Len(fouriers[f].points) - 1), z)
                 /\ fouriers'[f].points_x = Append(SubSeq(fouriers[f].points_x, 1,
                                              Len(fouriers[f].points_x) - 1), Real(z))
                 /\ fouriers'[f].points_y = Append(fouriers[f].points_y, Imag(z))]_vars

\* C14 witness: two curves hold two complete samples each and no append is in progress
C14_Witness ==
    /\ proc_pc = "l192"
    /\ Len(fouriers) >= 2
    /\ \A f \in 1..Len(fouriers) : Len(fouriers[f].points_y) >= 2

\* C15: at every instant, for each curve,
\* len(points) >= len(points_x) >= len(points_y) >= len(points) - 1.
C15_LengthSkewAtMostOne ==
    \A f \in 1..Len(fouriers) :
      /\ Len(fouriers[f].points) >= Len(fouriers[f].points_x)
      /\ Len(fouriers[f].points_x) >= Len(fouriers[f].points_y)
      /\ Len(fouriers[f].points_y) >= Len(fouriers[f].points) - 1

\* C15 witness: the producer is between the append to points and the append to
\* points_x of the second sample: points leads both coordinate lists by one
C15_Witness ==
    /\ proc_pc = "l137"
    /\ Len(fouriers[proc_f].points) = Len(fouriers[proc_f].points_x) + 1
    /\ Len(fouriers[proc_f].points_x) = Len(fouriers[proc_f].points_y)
    /\ Len(fouriers[proc_f].points_y) >= 1

\* C16: every pair (x[i], y[i]) handed to plot is the real and the imaginary
\* part of the i-th point appended to that curve.
C16_PairsOfTheSamePoint ==
    ui_pc = "l230p" =>
      \A i \in 1..Len(arg_x) :
        /\ i <= Len(arg_y)
        /\ i <= Len(fouriers[ui_f].points)
        /\ arg_x[i] = Real(fouriers[ui_f].points[i])
        /\ arg_y[i] = Imag(fouriers[ui_f].points[i])

\* C16 witness: plot is about to be called with two pairs while the producer
\* has already appended further entries to points_y
C16_Witness ==
    /\ ui_pc = "l230p"
    /\ Len(arg_x) >= 2
    /\ Len(fouriers[ui_f].points_y) > Len(arg_y)

\* C17: every curve's complex-point list has the length of the rotation counter
\* or one more; a curve registered earlier is never shorter than one registered
\* later (so two lengths differ by at most one); and all lengths equal the
\* counter whenever the producer is between samples.
C17_LengthsFollowCounter ==
    /\ \A f \in 1..Len(fouriers) :
         Len(fouriers[f].points) \in {n_cur, n_cur + 1}
    /\ \A f, g \in 1..Len(fouriers) :
         f < g => Len(fouriers[f].points) >= Len(fouriers[g].points)
    /\ proc_pc \in {"idle", "l185", "l196"} =>
         \A f \in 1..Len(fouriers) : Len(fouriers[f].points) = n_cur

\* C17 witness: within a sample the first curve already has its point and the
\* second not yet
C17_Witness ==
    /\ Len(fouriers) >= 2
    /\ n_cur >= 1
    /\ Len(fouriers[1].points) = n_cur + 1
    /\ Len(fouriers[2].points) = n_cur

C19_FlagClearOutsideTick ==
    /\ ui_pc \in {"idle", "l209", "l213", "l214", "l217", "l221"} => ~is_drawing
    /\ ui_pc \in {"l222", "l229x", "l229y", "l230x", "l230y", "l230p", "l232"}
         => is_drawing

\* C19 witness: a tick is at its entry test after an earlier tick completed a redraw
C19_Witness == ui_pc = "l209" /\ n_redraws >= 1 /\ ~is_drawing

\* C20: in manual mode the redraws begun so far (completed or in progress) never
\* outnumber the recognized gestures received so far.
C20_NoRedrawWithoutGesture ==
    manual => n_redraws + (IF Redrawing THEN 1 ELSE 0) <= n_gestures

\* C20 witness: manual mode, two gestures each followed by a redraw, the second
\* in progress
C20_Witness ==
    /\ manual /\ n_gestures = 2 /\ n_redraws = 1
    /\ ui_pc = "l222" /\ n_coalesced = 0

====
